---- MODULE Spec2Model ----
(***************************************************************************)
(* State-machine model of dalladalla.dallacrowd: the Estimator object      *)
(* (points, weights, boundaries, cached density surface), its operations   *)
(* set_points, set_weights, estimate_stops and route_dist, and the module  *)
(* function nearest_street.                                                *)
(*                                                                         *)
(* Numbers.  Point coordinates are integers.  A grid coordinate produced   *)
(* by np.linspace is the exact rational <<num, den>>, den = resolution-1   *)
(* (1 for resolution <= 1), so no rounding is introduced by the model.     *)
(* Optional values (None or a value) are <<>> or <<value>>.                *)
(***************************************************************************)
EXTENDS Integers, Sequences, FiniteSets, TLC

VARIABLES
    points,          \* self._points: the PointSet, a sequence of <<x, y>>
    p_coordinates,   \* self.__p_coordinates: the 2 x N array <<xs, ys>>
    boundaries,      \* self.__boundaries: <<xmin, xmax, ymin, ymax>>
    weights,         \* self._weights: None or a weight vector
    stop_prob,       \* self._stop_prob: None or the cached density surface
    fitted,          \* history: the inputs the cached surface was computed from
    last             \* the last call: operation, arguments, outcome, result

vars == <<points, p_coordinates, boundaries, weights, stop_prob, fitted, last>>

----------------------------------------------------------------------------
(* Bounds of the model *)

MaxRes == 4
MaxKw == 2
GridN == 3

----------------------------------------------------------------------------
(* Generic helpers *)

None == <<>>
Some(v) == <<v>>

Range(s) == {s[k] : k \in DOMAIN s}
Min(S) == CHOOSE m \in S : \A e \in S : m <= e
Max(S) == CHOOSE m \in S : \A e \in S : m >= e
Abs(a) == IF a < 0 THEN 0 - a ELSE a

Sum(s) ==
    LET F[k \in 0..Len(s)] == IF k = 0 THEN 0 ELSE F[k - 1] + s[k]
    IN F[Len(s)]

\* an array built element by element, held as the tuple of its elements
Arr(f) == f \o <<>>

\* shape of a 2-D array held as a sequence of rows
Shape(m) == <<Len(m), IF Len(m) = 0 THEN 0 ELSE Len(m[1])>>
Size(m) == Shape(m)[1] * Shape(m)[2]

----------------------------------------------------------------------------
(* Inputs the callers supply *)

\* GeoSeries of Point geometries
PS_empty == <<>>
PS_one == << <<1, 1>> >>
PS_far == << <<0, 6>>, <<6, 0>> >>
PS_wide == << <<0, 0>>, <<0, 9>>, <<5, 3>> >>
PS_twin == << <<0, 0>>, <<3, 6>>, <<2, 2>>, <<1, 4>> >>
PointSets == {PS_empty, PS_one, PS_far, PS_wide, PS_twin}

\* weight vectors (None: no weights given)
WeightVectors ==
    {None, Some(<<0, 0>>), Some(<<1, 1, 2, 2>>)}

\* a negative one, zero, the smallest ones, and the largest
Resolutions == {0 - 1, 0, 1, 2, MaxRes}
KernelWidths == 1..MaxKw

\* bus routes: geometries with a distance-to-point operation
Routes == {<<>>, << <<0, 0>> >>, << <<0, 3>>, <<2, 2>> >>}

----------------------------------------------------------------------------
(* Estimator.points setter, lines 35-41 *)

\* np.array([p.xy for p in value.geometry]).reshape((N, 2)).T
Coordinates(value) ==
    << Arr([k \in 1..Len(value) |-> value[k][1]]),
       Arr([k \in 1..Len(value) |-> value[k][2]]) >>

\* arr.min(axis=1) / arr.max(axis=1) of a 2 x N array
MinAxis1(c) == <<Min(Range(c[1])), Min(Range(c[2]))>>
MaxAxis1(c) == <<Max(Range(c[1])), Max(Range(c[2]))>>

\* np.array([r1, r2]).flatten()
Flatten(m) == m[1] \o m[2]

\* fancy indexing a[[i0, i1, ...]] with zero-based indices
TakeIdx(a, idx) == Arr([k \in 1..Len(idx) |-> a[idx[k] + 1]])

ComputeBoundaries_unpermuted(c) ==
    TakeIdx(Flatten(<<MinAxis1(c), MaxAxis1(c)>>), <<0, 1, 2, 3>>)

ComputeBoundaries(c) ==
    TakeIdx(Flatten(<<MinAxis1(c), MaxAxis1(c)>>), <<0, 2, 1, 3>>)

NoFit == [pts |-> <<>>, w |-> None, weighted |-> FALSE, resolution |-> 0,
          kernel_width |-> 0]

Call(op, outcome) ==
    [op |-> op, outcome |-> outcome, n |-> 0, weighted |-> FALSE, snap |-> FALSE,
     resolution |-> 0, kernel_width |-> 0, cached |-> FALSE, extracted |-> FALSE,
     responses |-> <<>>, result |-> <<>>, dists |-> <<>>]

\* the statements of the setter run in order; min() of a zero-size array raises
\* ValueError at line 39, after lines 37-38 have replaced the coordinates and the
\* PointSet and before lines 39-41 touch the boundaries and the cache
set_points(value) ==
    /\ p_coordinates' = Coordinates(value)
    /\ points' = value
    /\ IF Len(value) = 0
         THEN /\ UNCHANGED <<boundaries, stop_prob, fitted>>
              /\ last' = [Call("set_points", "ValueError") EXCEPT !.n = Len(value)]
         ELSE /\ boundaries' = ComputeBoundaries(Coordinates(value))
              /\ stop_prob' = None
              /\ fitted' = NoFit
              /\ last' = [Call("set_points", "ok") EXCEPT !.n = Len(value)]
    /\ UNCHANGED weights

(* Estimator.weights setter, lines 47-50 *)
set_weights(value) ==
    /\ weights' = value
    /\ stop_prob' = None
    /\ fitted' = NoFit
    /\ last' = [Call("set_weights", "ok") EXCEPT
                  !.n = IF value = None THEN 0 ELSE Len(value[1])]
    /\ UNCHANGED <<points, p_coordinates, boundaries>>

----------------------------------------------------------------------------
(* Grid construction, lines 75-77 *)

\* np.linspace(start, stop, num): num samples, both ends included; the k-th is
\* start + k * (stop - start) / (num - 1), held as <<numerator, num - 1>>
Scale(num) == IF num > 1 THEN num - 1 ELSE 1
linspace(start, stop, num) ==
    Arr([k \in 1..num |-> <<start * Scale(num) + (k - 1) * (stop - start), Scale(num)>>])

\* line 75 and line 76
XGrid_fromY(b, resolution) == linspace(b[3], b[4], resolution)
XGrid(b, resolution) == linspace(b[1], b[2], resolution)
YGrid(b, resolution) == linspace(b[3], b[4], resolution)

\* np.meshgrid(x, y): xx[i][j] = x[j], yy[i][j] = y[i]
meshgrid_xx(x, y) == Arr([i \in 1..Len(y) |-> Arr([j \in 1..Len(x) |-> x[j]])])
meshgrid_yy(x, y) == Arr([i \in 1..Len(y) |-> Arr([j \in 1..Len(x) |-> y[i]])])

\* np.ravel(m): the elements in row-major order
Ravel(m) ==
    LET c == Shape(m)[2]
    IN Arr([k \in 1..Size(m) |-> m[((k - 1) \div c) + 1][((k - 1) % c) + 1]])

\* np.reshape(v, shape)
Reshape(v, shape) ==
    Arr([i \in 1..shape[1] |-> Arr([j \in 1..shape[2] |-> v[(i - 1) * shape[2] + j]])])

----------------------------------------------------------------------------
(* The density model dalladalla.weightedkde.gaussian_kde, lines 81-84 *)

\* what the fit rejects: fewer than two points, a weight vector of another
\* length, weights that sum to zero
KdeInvalid(n, w) ==
    \/ n < 2
    \/ /\ w # None
       /\ \/ Len(w[1]) # n
          \/ Sum(w[1]) = 0

\* absent weights: every point weighs 1
KdeWeights(n, w) == IF w = None THEN Arr([k \in 1..n |-> 1]) ELSE w[1]

\* one point's contribution at the query (qx, qy): a kernel of width h centred
\* on the point, in units of 1 / den
Kernel(qx, qy, px, py, h) ==
    LET den == qx[2]
        d == Abs(qx[1] - px * den) + Abs(qy[1] - py * den)
    IN IF h * den > d THEN h * den - d ELSE 0

\* pdf((qxs, qys)): one density value per query point, in order
pdf(c, w, h, qxs, qys) ==
    Arr([q \in 1..Len(qxs) |->
        Sum(Arr([k \in 1..Len(c[1]) |->
                   w[k] * Kernel(qxs[q], qys[q], c[1][k], c[2][k], h)]))])

----------------------------------------------------------------------------
(* Maxima extraction, lines 87-94 *)

\* ndarray.take(locs + shift, axis, mode='clip') inside scipy's argrelmax
Clip(k, n) == IF k < 1 THEN 1 ELSE IF k > n THEN n ELSE k
TakeShift(data, i, j, shift, axis) ==
    IF axis = 0 THEN data[Clip(i + shift, Shape(data)[1])][j]
                ELSE data[i][Clip(j + shift, Shape(data)[2])]

\* the comparator of argrelmax is np.greater
greater_equal(a, b) == a >= b
greater(a, b) == a > b

\* argrelmax(data, axis): the indices greater than both neighbours along axis
argrelmax(data, axis) ==
    {ij \in (1..Shape(data)[1]) \X (1..Shape(data)[2]) :
        /\ greater(data[ij[1]][ij[2]], TakeShift(data, ij[1], ij[2], 1, axis))
        /\ greater(data[ij[1]][ij[2]], TakeShift(data, ij[1], ij[2], 0 - 1, axis))}

\* out = np.zeros_like(data); out[idx] = 1
Marked(data, idx) ==
    Arr([i \in 1..Shape(data)[1] |->
        Arr([j \in 1..Shape(data)[2] |-> IF <<i, j>> \in idx THEN 1 ELSE 0])])

\* out = out_x + out_y, lines 87-93
MaximaOut(data) ==
    LET out_x == Marked(data, argrelmax(data, 1))
        out_y == Marked(data, argrelmax(data, 0))
    IN Arr([i \in 1..Shape(data)[1] |->
          Arr([j \in 1..Shape(data)[2] |-> out_x[i][j] + out_y[i][j]])])

\* m[mask]: the elements of m where the mask holds, in row-major order
Compress(v, b) ==
    LET F[k \in 0..Len(v)] ==
          IF k = 0 THEN <<>>
          ELSE IF b[k] THEN Append(F[k - 1], v[k]) ELSE F[k - 1]
    IN F[Len(v)]
MaskSelect(m, out) ==
    LET flat == Ravel(out)
    IN Compress(Ravel(m), Arr([k \in 1..Len(flat) |-> flat[k] = 2]))

\* line 94: stop_points = np.array([xx[out == 2.], yy[out == 2]])
StopPoints(out, xx, yy) == <<MaskSelect(xx, out), MaskSelect(yy, out)>>

----------------------------------------------------------------------------
(* nearest_street, lines 113-128, and its use at line 96 *)

\* what one lookup of the routing service does: it answers, or it fails (no
\* connection, a malformed payload, no 'mapped_coordinate' field)
Responses == {"ok", "fail"}

\* the service's answer for a coordinate: the street node it maps to
mapped_coordinate(coordinates) ==
    << <<coordinates[1][1] \div coordinates[1][2], 1>>,
       <<coordinates[2][1] \div coordinates[2][2], 1>> >>

\* the return value as np.asanyarray sees it: the list of two numbers (ndim 1),
\* or, when the lookup raised, the scalar 0 of the except branch (ndim 0)
nearest_street(coordinates, response) ==
    IF response = "ok"
      THEN [ndim |-> 1, data |-> mapped_coordinate(coordinates)]
      ELSE [ndim |-> 0, data |-> << <<0, 1>> >>]

\* stop_points.T: one row <<x, y>> per candidate
Transpose2(stop_points) ==
    Arr([k \in 1..Len(stop_points[1]) |-> <<stop_points[1][k], stop_points[2][k]>>])

\* np.apply_along_axis(nearest_street, 1, rows): the first row's return value
\* fixes the shape of the output buffer; each later return value is assigned
\* into its slot of that buffer
apply_along_axis(rows, responses) ==
    LET ret(k) == nearest_street(rows[k], responses[k])
    IN IF Len(rows) = 0
         THEN [outcome |-> "ValueError", ndim |-> 0, buff |-> <<>>]
       ELSE IF ret(1).ndim = 0
         THEN IF \E k \in 2..Len(rows) : ret(k).ndim = 1
                THEN [outcome |-> "ValueError", ndim |-> 0, buff |-> <<>>]
                ELSE [outcome |-> "ok", ndim |-> 1,
                      buff |-> Arr([k \in 1..Len(rows) |-> ret(k).data])]
       ELSE [outcome |-> "ok", ndim |-> 2,
             buff |-> Arr([k \in 1..Len(rows) |->
                             IF ret(k).ndim = 1 THEN ret(k).data
                             ELSE <<ret(k).data[1], ret(k).data[1]>>])]

\* line 98 on the 2 x k list: list(zip(point_list[1], point_list[0]))
ZipYX_xy(point_list) ==
    Arr([k \in 1..Len(point_list[1]) |-> <<point_list[1][k], point_list[2][k]>>])
ZipYX(point_list) ==
    Arr([k \in 1..Len(point_list[1]) |-> <<point_list[2][k], point_list[1][k]>>])

\* lines 96-98 with snap_to_street: the snapped k x 2 buffer transposed and
\* zipped; a 1-D buffer (every lookup failed) has no rows to zip
SnapReturn(stop_points, responses) ==
    LET a == apply_along_axis(Transpose2(stop_points), responses)
    IN IF a.outcome # "ok" THEN [outcome |-> a.outcome, result |-> <<>>]
       ELSE IF a.ndim = 1
         THEN [outcome |-> IF Len(a.buff) < 2 THEN "IndexError" ELSE "TypeError",
               result |-> <<>>]
       ELSE [outcome |-> "ok",
             result |-> ZipYX(<< Arr([k \in 1..Len(a.buff) |-> a.buff[k][1]]),
                                 Arr([k \in 1..Len(a.buff) |-> a.buff[k][2]]) >>)]

----------------------------------------------------------------------------
(* Estimator.estimate_stops, lines 63-98 *)

\* `not self._stop_prob` at line 78: None is falsy; an array of one element has
\* the truth value of that element; an array of several elements raises
\* ValueError; an empty array is falsy or raises, by the numpy release
NotStopProb(empty_raises) ==
    IF stop_prob = None THEN "fit"
    ELSE IF Size(stop_prob[1]) = 0 THEN (IF empty_raises THEN "ValueError" ELSE "fit")
    ELSE IF Size(stop_prob[1]) = 1
      THEN (IF stop_prob[1][1][1] = 0 THEN "fit" ELSE "cached")
    ELSE "ValueError"

\* lines 80-85: fit on the coordinates and weights (weighted) or on the points
\* (not weighted), evaluate on the raveled grid, reshape to the grid's shape
FitData(weighted) == IF weighted THEN p_coordinates ELSE Coordinates(points)
FitWeights(weighted) == IF weighted THEN weights ELSE None
Surface(weighted, kernel_width, xx, yy) ==
    LET c == FitData(weighted)
        w == KdeWeights(Len(c[1]), FitWeights(weighted))
    IN Reshape(pdf(c, w, kernel_width, Ravel(xx), Ravel(yy)), Shape(xx))

estimate_stops(weighted, snap_to_street, resolution, kernel_width, empty_raises) ==
    LET call == [Call("estimate_stops", "ok") EXCEPT
                    !.weighted = weighted, !.snap = snap_to_street,
                    !.resolution = resolution, !.kernel_width = kernel_width]
        raise(kind) ==
            /\ last' = [call EXCEPT !.outcome = kind]
            /\ UNCHANGED <<stop_prob, fitted>>
    IN
    /\ UNCHANGED <<points, p_coordinates, boundaries, weights>>
    /\ IF resolution < 0 THEN raise("ValueError")
       ELSE
       LET x == XGrid(boundaries, resolution)
           y == YGrid(boundaries, resolution)
           xx == meshgrid_xx(x, y)
           yy == meshgrid_yy(x, y)
           test == NotStopProb(empty_raises)
       IN
       IF test = "ValueError" THEN raise("ValueError")
       ELSE IF test = "fit"
               /\ KdeInvalid(Len(FitData(weighted)[1]), FitWeights(weighted))
         THEN raise("InvalidInputError")
       ELSE
       LET surface == IF test = "fit" THEN Surface(weighted, kernel_width, xx, yy)
                      ELSE stop_prob[1]
           out == MaximaOut(surface)
           seen == [call EXCEPT !.cached = (test = "cached"), !.extracted = TRUE]
       IN
       /\ stop_prob' = Some(surface)
       /\ fitted' = IF test = "fit"
                      THEN [pts |-> points, w |-> weights, weighted |-> weighted,
                            resolution |-> resolution, kernel_width |-> kernel_width]
                      ELSE fitted
       /\ IF Shape(out) # Shape(xx)
            THEN last' = [seen EXCEPT !.outcome = "IndexError"]
          ELSE
          LET stop_points == StopPoints(out, xx, yy)
          IN IF ~snap_to_street
               THEN last' = [seen EXCEPT !.result = ZipYX(stop_points)]
               ELSE \E responses \in [1..Len(stop_points[1]) -> Responses] :
                      LET r == SnapReturn(stop_points, responses)
                      IN last' = [seen EXCEPT !.outcome = r.outcome,
                                              !.responses = Arr(responses),
                                              !.result = r.result]

----------------------------------------------------------------------------
(* Estimator.route_dist, lines 100-109 *)

\* point.distance(r): the squared Euclidean distance stands for the distance
\* (the square is monotone, so minima are the same)
distance(point, r) ==
    (point[1] - r[1]) * (point[1] - r[1]) + (point[2] - r[2]) * (point[2] - r[2])

\* min() of an empty list raises ValueError; with no points the loop body never runs
route_dist(routes) ==
    /\ UNCHANGED <<points, p_coordinates, boundaries, weights, stop_prob, fitted>>
    /\ IF Len(points) > 0 /\ Len(routes) = 0
         THEN last' = [Call("route_dist", "ValueError") EXCEPT !.n = Len(routes)]
         ELSE last' = [Call("route_dist", "ok") EXCEPT
                         !.n = Len(routes),
                         !.dists = Arr([k \in 1..Len(points) |->
                                          Min({distance(points[k], routes[q]) :
                                                 q \in 1..Len(routes)})])]

----------------------------------------------------------------------------
(* The Estimator after construction, lines 21-29, and its callers *)

\* __init__: _stop_prob = None, then the two setters; a PointSet whose setter
\* raises leaves no object behind
Init ==
    \E input_points \in PointSets \ {PS_empty} :
    \E w \in WeightVectors :
        /\ points = input_points
        /\ p_coordinates = Coordinates(input_points)
        /\ boundaries = ComputeBoundaries(Coordinates(input_points))
        /\ weights = w
        /\ stop_prob = None
        /\ fitted = NoFit
        /\ last = [Call("init", "ok") EXCEPT !.n = Len(input_points)]

\* bool() of an empty array: False with a deprecation warning, or ValueError
EmptyArrayBool ==
    IF stop_prob # None /\ Size(stop_prob[1]) = 0 THEN BOOLEAN ELSE {FALSE}

SetPoints == \E value \in PointSets : set_points(value)
SetWeights == \E value \in WeightVectors : set_weights(value)
EstimateStops ==
    \E weighted \in BOOLEAN, snap_to_street \in BOOLEAN, resolution \in Resolutions,
       kernel_width \in KernelWidths, empty_raises \in EmptyArrayBool :
        estimate_stops(weighted, snap_to_street, resolution, kernel_width, empty_raises)
RouteDist == \E routes \in Routes : route_dist(routes)

Next == SetPoints \/ SetWeights \/ EstimateStops \/ RouteDist

Spec == Init /\ [][Next]_vars

----------------------------------------------------------------------------
(* Maxima extraction on its own: lines 87-98 applied to every small grid *)

GridVals == {0, 1}
Grids == UNION {[1..n -> [1..n -> GridVals]] : n \in 1..GridN}

\* the grid is the cached surface; the x and y coordinates are the cell indices
InitGrid ==
    \E g \in Grids :
        /\ points = <<>>
        /\ p_coordinates = Coordinates(<<>>)
        /\ boundaries = <<0, Len(g) - 1, 0, Len(g) - 1>>
        /\ weights = None
        /\ stop_prob = Some(Arr([i \in 1..Len(g) |-> Arr(g[i])]))
        /\ fitted = NoFit
        /\ last = Call("init", "ok")

ExtractMaxima ==
    LET data == stop_prob[1]
        x == XGrid(boundaries, Len(data))
        y == YGrid(boundaries, Len(data))
        out == MaximaOut(data)
    IN /\ last.op = "init"
       /\ last' = [Call("extract", "ok") EXCEPT
                     !.resolution = Len(data), !.extracted = TRUE,
                     !.result = ZipYX(StopPoints(out, meshgrid_xx(x, y),
                                                 meshgrid_yy(x, y)))]
       /\ UNCHANGED <<points, p_coordinates, boundaries, weights, stop_prob, fitted>>

NextGrid == ExtractMaxima

SpecGrid == InitGrid /\ [][NextGrid]_vars

----------------------------------------------------------------------------
(* Properties *)

\* exact comparison of rationals <<num, den>>, den > 0
Leq(a, b) == a[1] * b[2] <= b[1] * a[2]
Rat(k) == <<k, 1>>

\* per-axis extrema of a PointSet, taken from the points themselves
Xs(ps) == {ps[k][1] : k \in 1..Len(ps)}
Ys(ps) == {ps[k][2] : k \in 1..Len(ps)}

IsEstimate == last.op = "estimate_stops"

\* C1: whenever estimate_stops (resolution >= 1) extracts maxima from a surface
\* it found cached, that surface was computed from the PointSet and the
\* WeightVector the Estimator holds at that call (no surface outlives a
\* set_points or set_weights call).
C1_CachedSurfaceIsCurrent ==
    (IsEstimate /\ last.resolution >= 1 /\ last.extracted /\ last.cached)
        => (fitted.pts = points /\ fitted.w = weights)

\* C2: with N >= 2 points, an estimate_stops call that follows a successful
\* estimate_stops call with the same arguments (resolution >= 1, no road
\* snapping, nothing set in between) succeeds too and returns the same
\* candidate sequence.
C2_Idempotent ==
    [][(/\ IsEstimate /\ last.outcome = "ok" /\ ~last.snap
        /\ Len(points) >= 2 /\ last.resolution >= 1
        /\ last'.op = "estimate_stops"
        /\ last'.weighted = last.weighted /\ last'.snap = last.snap
        /\ last'.resolution = last.resolution
        /\ last'.kernel_width = last.kernel_width)
       => (last'.outcome = "ok" /\ last'.result = last.result)]_vars

\* a cell strictly greater than its two row neighbours and its two column
\* neighbours, all four of which exist
StrictPeak(g, i, j) ==
    /\ 1 < i /\ i < Len(g)
    /\ 1 < j /\ j < Len(g[i])
    /\ g[i][j] > g[i][j - 1] /\ g[i][j] > g[i][j + 1]
    /\ g[i][j] > g[i - 1][j] /\ g[i][j] > g[i + 1][j]

IsConstant(g) == \A i \in 1..Len(g), j \in 1..Len(g) : g[i][j] = g[1][1]

\* C3: for every grid, the cell in row i and column j is returned as a candidate
\* (as its index pair) if and only if it is strictly greater than both row
\* neighbours and both column neighbours; so no edge cell and no plateau cell is
\* returned, and a constant grid gives the empty list without raising.
C3_StrictInteriorMaxima ==
    last.op = "extract" =>
        LET g == stop_prob[1]
            n == Len(g)
        IN /\ last.outcome = "ok"
           /\ \A i \in 1..n, j \in 1..n :
                (\E k \in 1..Len(last.result) :
                    last.result[k] = <<<<(i - 1) * Scale(n), Scale(n)>>,
                                       <<(j - 1) * Scale(n), Scale(n)>>>>)
                  <=> StrictPeak(g, i, j)
           /\ IsConstant(g) => last.result = <<>>

C3_Witness ==
    /\ last.op = "extract"
    /\ Len(last.result) = 1
    /\ \E i \in 1..Len(stop_prob[1]), j \in 1..Len(stop_prob[1]) :
          StrictPeak(stop_prob[1], i, j)

Sentinel == <<Rat(0), Rat(0)>>

\* C4: when estimate_stops snaps its candidates and any of the lookups fail, it
\* returns normally one entry per candidate, the failed ones being the sentinel.
C4_SnapFailureKeepsBatch ==
    (IsEstimate /\ last.snap /\ \E k \in 1..Len(last.responses) :
                                    last.responses[k] = "fail")
        => /\ last.outcome = "ok"
           /\ Len(last.result) = Len(last.responses)
           /\ \A k \in 1..Len(last.responses) :
                last.responses[k] = "fail" => last.result[k] = Sentinel

\* C5: an invalid input is reported as InvalidInputError by the operation that
\* receives it: set_points with fewer than 2 points; estimate_stops with
\* resolution <= 0; estimate_stops with weighted=True and a WeightVector of the
\* wrong length or of sum zero.
C5_InvalidInputReported ==
    /\ (last.op = "set_points" /\ last.n < 2) => last.outcome = "InvalidInputError"
    /\ (IsEstimate /\ last.resolution <= 0) => last.outcome = "InvalidInputError"
    /\ (IsEstimate /\ last.weighted /\ weights # None
          /\ (Len(weights[1]) # Len(points) \/ Sum(weights[1]) = 0))
         => last.outcome = "InvalidInputError"

\* the k-th of n evenly spaced samples of [lo, hi], both ends included
GridCoord(lo, hi, n, k) == <<lo * Scale(n) + (k - 1) * (hi - lo), Scale(n)>>

PeakCells(g) ==
    {c \in (1..Len(g)) \X (1..Len(g)) : StrictPeak(g, c[1], c[2])}

\* position of a cell among the qualifying cells, rows first, then columns
RowMajorRank(g, c) ==
    1 + Cardinality({d \in PeakCells(g) :
                        d[1] < c[1] \/ (d[1] = c[1] /\ d[2] < c[2])})

\* C6: without road snapping, estimate_stops returns exactly one pair per
\* qualifying cell of the surface, in row-major order of the cells, and the pair
\* of the cell in row i and column j is (y[i], x[j]): y coordinate first.
C6_RowMajorYX ==
    (IsEstimate /\ ~last.snap /\ last.outcome = "ok") =>
        LET g == stop_prob[1]
            n == last.resolution
        IN /\ Len(last.result) = Cardinality(PeakCells(g))
           /\ \A c \in PeakCells(g) :
                last.result[RowMajorRank(g, c)] =
                    <<GridCoord(boundaries[3], boundaries[4], n, c[1]),
                      GridCoord(boundaries[1], boundaries[2], n, c[2])>>

C6_Witness ==
    /\ IsEstimate /\ ~last.snap /\ last.outcome = "ok"
    /\ Len(last.result) = 2
    /\ last.result[2][1] # last.result[2][2]
    /\ boundaries[2] # boundaries[4]

Uniform(w) == w = None \/ \A k \in 1..Len(w[1]) : w[1][k] = w[1][1]

\* C7: with N >= 2 points and uniform weights, every pair (y, x) returned by
\* estimate_stops without road snapping lies inside the bounding box of the
\* current PointSet: xmin <= x <= xmax and ymin <= y <= ymax.
C7_InsideBoundaries ==
    (/\ IsEstimate /\ ~last.snap /\ last.outcome = "ok"
     /\ Len(points) >= 2 /\ (~last.weighted \/ Uniform(weights))) =>
        \A k \in 1..Len(last.result) :
            /\ Leq(Rat(Min(Xs(points))), last.result[k][2])
            /\ Leq(last.result[k][2], Rat(Max(Xs(points))))
            /\ Leq(Rat(Min(Ys(points))), last.result[k][1])
            /\ Leq(last.result[k][1], Rat(Max(Ys(points))))

C7_Witness ==
    /\ IsEstimate /\ ~last.snap /\ last.outcome = "ok"
    /\ Len(points) >= 2 /\ (~last.weighted \/ Uniform(weights))
    /\ Len(last.result) >= 1

C9_RouteDist ==
    last.op = "route_dist" =>
        IF last.n = 0
          THEN last.outcome = "InvalidInputError"
          ELSE /\ last.outcome = "ok"
               /\ Len(last.dists) = Len(points)
               /\ \A k \in 1..Len(points) : last.dists[k] >= 0

\* C10: the surface estimate_stops (resolution >= 1) extracts maxima from is a
\* resolution x resolution grid for the resolution of that call and was fitted
\* with the weighted flag and the kernel_width of that call.
C10_SurfaceMatchesCall ==
    (IsEstimate /\ last.resolution >= 1 /\ last.extracted) =>
        /\ Shape(stop_prob[1]) = <<last.resolution, last.resolution>>
        /\ fitted.resolution = last.resolution
        /\ fitted.kernel_width = last.kernel_width
        /\ fitted.weighted = last.weighted

====
